---- MODULE Spec2Model ----
(***************************************************************************)
(* NexusCMS. The API gateway (api-gateway/src/index.ts, the second half of *)
(* src/nexuscms/auth-service/src/index.ts): the discovery cache, the       *)
(* round-robin selection, the Auth Gate, the route table and the proxy.    *)
(* A service process (auth-service/src/index.ts, and the content-service   *)
(* of src/setup.sh, which has the same code): its registration, its        *)
(* heartbeats and its shutdown. Both run against a service registry whose  *)
(* source is not in the repository: its listing, the Registry Store and    *)
(* the Heartbeat Monitor are modelled from the specification.              *)
(*                                                                         *)
(* One action is one run-to-completion step of the Node.js event loop: a   *)
(* handler runs from its start, or from the resumption of an await, to its *)
(* next await or its end.                                                  *)
(***************************************************************************)
EXTENDS Integers, Sequences, FiniteSets, Bags, TLC

\* ------------------------------------------------------------ bounds

\* The clock advances at most MaxTicks times while requests arrive, and at
\* most MaxQuietTicks times when the timer runs alone.
MaxTicks == 1
MaxQuietTicks == 4
\* At most MaxFetches GET /services calls are modelled in flight at once.
MaxFetches == 2
\* At most MaxSelections selections are followed.
MaxSelections == 4

\* The registry issues at most MaxIds instance ids.
MaxIds == 2
\* A service process has at most MaxCalls calls to the registry in flight.
MaxCalls == 2

\* --------------------------------------------------------- constants

SERVICE_CACHE_TTL == 60000
REFRESH_INTERVAL == 30000
HEARTBEAT_INTERVAL == 20000
\* setTimeout(registerService, 5000)
REGISTER_RETRY_DELAY == 5000
\* The Heartbeat Monitor's thresholds: twice and five times the heartbeat
\* interval.
STALE_THRESHOLD == 2 * HEARTBEAT_INTERVAL
EVICT_THRESHOLD == 5 * HEARTBEAT_INTERVAL
\* The age of a heartbeat is followed in steps that take it beyond
\* STALE_THRESHOLD first and beyond EVICT_THRESHOLD next, and no further.
AgeStep == STALE_THRESHOLD + HEARTBEAT_INTERVAL
AgeCap == 2 * AgeStep

\* The clock is followed in steps of one timer period.
TimeStep == REFRESH_INTERVAL
\* Date.now() when the gateway starts: any value at least the TTL, so that
\* the start-up refresh (lastCacheUpdate = 0) passes the TTL test as it does
\* with a real epoch clock.
StartTime == SERVICE_CACHE_TTL
MaxTime == StartTime + MaxTicks * TimeStep
MaxQuietTime == StartTime + MaxQuietTicks * TimeStep

\* ------------------------------------------------------------- values

ServiceNames == {"auth-service", "content-service", "frontend"}

\* The instances that register, in this order; ids are never reused.
RegOrder == <<"A", "D", "B", "C">>
InstanceIds == {RegOrder[i] : i \in 1..Len(RegOrder)}
NameOf(id) == IF id = "D" THEN "auth-service" ELSE "content-service"
\* The instances whose heartbeats may lapse, and those that may leave.
Lapsing == {"B"}
Leaving == {"A", "B"}

ServiceInfo(id, status) == [id |-> id, name |-> NameOf(id), status |-> status]

\* null, as getServiceInstance returns it.
NoInstance == [id |-> "null", name |-> "null", status |-> "null"]
\* undefined, the element of an array at an index outside it.
UndefinedInstance == [id |-> "undefined", name |-> "undefined",
                      status |-> "undefined"]
\* The x-user-id and x-user-roles headers of an inbound request that has
\* none, and those a client sets by itself.
NoIdentity == [userId |-> <<>>, userRoles |-> <<>>]
ClientIdentity == [userId |-> <<"u1">>,
                   userRoles |-> << <<"[", "\"admin\"", "]">> >>]
\* req.user before the Auth Gate attached a Principal.
NoUser == [id |-> "undefined", roles |-> <<>>, hasRoles |-> FALSE]
\* An Authorization header is the sequence of its space-separated parts
\* (authHeader.split(' ')); the absent header has none.
NoHeader == <<>>
\* The x-correlation-id header of a request is the sequence of its values:
\* none when the header is absent, one otherwise.
NoRequest == [path |-> <<>>, auth |-> NoHeader, correlation |-> NoHeader,
              identity |-> NoIdentity, user |-> NoUser, service |-> "none"]
\* No request was sent upstream.
NoProxyReq == [path |-> <<>>, correlation |-> NoHeader, userId |-> NoHeader,
               userRoles |-> NoHeader]
\* upstream: "none", "pending" (the proxy sent proxyReq and awaits the
\* instance), "error" or "answered"; headers: the x-correlation-id header of
\* the answer the caller receives.
NoResponse == [path |-> <<>>, auth |-> NoHeader, status |-> 0, user |-> NoUser,
               service |-> "none", target |-> NoInstance, services |-> <<>>,
               refresh |-> "none", correlation |-> NoHeader,
               proxyReq |-> NoProxyReq, upstream |-> "none",
               headers |-> NoHeader]

\* ------------------------------------------------------------- state

VARIABLES
  now,               \* Date.now()
  registry,          \* the registry's listing, in registration order
  nextReg,           \* how many instances of RegOrder have registered
  serviceCache,      \* name -> ServiceInfo[]
  lastCacheUpdate,
  serviceSelectors,  \* name -> cursor
  fetches,           \* the refreshServiceCache calls awaiting axios.get
  nextTimer,         \* when the setInterval timer fires next
  response,          \* the answer to the request handled last
  applied,           \* the registry response swapped in last, with its `now`
  selLog,            \* per name: the instances returned since its list changed
  \* a service process and the Registry Store it registers with
  reachable,         \* the registry answers the calls that reach it
  store,             \* the store's instances, in registration order, each
                     \* with the age of its heartbeat, now - lastHeartbeat
  nextId,            \* how many instance ids the store has issued
  serviceId,         \* let serviceId: string | null
  calls,             \* the axios calls of the process that are in flight
  retryTimers,       \* the delays of the pending setTimeout(registerService)
  hbTimers,          \* how many setInterval(sendHeartbeat) timers run
  process,           \* "running", "deregistering", "closing", "exited0/1"
  svcLog             \* what happened: the ids the store deregistered, those
                     \* it evicted; serviceId when the signal was handled;
                     \* the ids the process obtained; whether the registry
                     \* was out of reach since the signal

serviceVars == <<reachable, store, nextId, serviceId, calls, retryTimers,
                 hbTimers, process, svcLog>>

vars == <<now, registry, nextReg, serviceCache, lastCacheUpdate,
          serviceSelectors, fetches, nextTimer, response, applied, selLog,
          serviceVars>>

\* null
NoId == 0
\* An axios call: op "register", "heartbeat" or "delete"; id the instance
\* id of its URL, or the id the registry answered with; result "sent" until
\* the registry has handled it, then "ok" or "failed".
Call(op, id, result) == [op |-> op, id |-> id, result |-> result]

\* ----------------------------------------------------- discovery cache

EmptyCache == [n \in {} |-> <<>>]

\* A refresh only once the TTL is exceeded, not once it is reached.
CacheExpiredLate(t, last) == t - last > SERVICE_CACHE_TTL

\* now - lastCacheUpdate < SERVICE_CACHE_TTL is the early return.
CacheExpired(t, last) == t - last >= SERVICE_CACHE_TTL

\* A grouping that puts each instance at the front of its group.
RECURSIVE GroupIntoPrepending(_, _)
GroupIntoPrepending(groupedServices, services) ==
  IF services = <<>> THEN groupedServices
  ELSE LET service == Head(services)
           g == IF service.name \in DOMAIN groupedServices
                THEN groupedServices
                ELSE [n \in DOMAIN groupedServices \cup {service.name} |->
                        IF n = service.name THEN <<>> ELSE groupedServices[n]]
       IN  GroupIntoPrepending([g EXCEPT ![service.name] = <<service>> \o @],
                               Tail(services))

RECURSIVE GroupInto(_, _)
GroupInto(groupedServices, services) ==
  IF services = <<>> THEN groupedServices
  ELSE LET service == Head(services)
           g == IF service.name \in DOMAIN groupedServices
                THEN groupedServices
                ELSE [n \in DOMAIN groupedServices \cup {service.name} |->
                        IF n = service.name THEN <<>> ELSE groupedServices[n]]
       IN  GroupInto([g EXCEPT ![service.name] = Append(@, service)],
                     Tail(services))

GroupServices(services) == GroupInto(EmptyCache, services)

\* The new groups merged into the old map: a name the response no longer
\* lists keeps its old group.
SwapCacheMerged(old, groupedServices) ==
  [n \in DOMAIN old \cup DOMAIN groupedServices |->
     IF n \in DOMAIN groupedServices THEN groupedServices[n] ELSE old[n]]

\* serviceCache = groupedServices: the new map replaces the old one.
SwapCache(old, groupedServices) == groupedServices

\* A catch block that drops the snapshot.
CacheOnErrorEmptied(cache) == EmptyCache

\* The catch block of refreshServiceCache only logs.
CacheOnError(cache) == cache
StampOnError(last) == last

\* serviceCache[serviceName] || []
ServicesOf(cache, serviceName) ==
  IF serviceName \in DOMAIN cache THEN cache[serviceName] ELSE <<>>

\* ------------------------------------------------------- load balancer

\* The selector read after its initialisation to 0.
CursorOf(selectors, serviceName) ==
  IF serviceName \in DOMAIN selectors THEN selectors[serviceName] ELSE 0

\* An index that is not wrapped to the list.
ServiceIndexUnwrapped(cursor, len) == cursor

ServiceIndex(cursor, len) == cursor % len

\* services[i] of a JavaScript array (0-based): undefined outside the array.
ElementAt(services, i) ==
  IF i + 1 \in 1..Len(services) THEN services[i + 1] ELSE UndefinedInstance

\* A selector that is never incremented.
NextCursorStuck(cursor) == cursor

\* A selector incremented twice, as by two unsynchronised updates.
NextCursorSkipping(cursor) == cursor + 2

NextCursor(cursor) == cursor + 1

\* The value getServiceInstance returns (sequences are 1-based).
getServiceInstance(serviceName, cache, selectors) ==
  LET services == ServicesOf(cache, serviceName)
  IN  IF Len(services) = 0 THEN NoInstance
      ELSE ElementAt(services, ServiceIndex(CursorOf(selectors, serviceName),
                                            Len(services)))

\* The selector initialised before the empty list is looked at.
SelectorsAfterInitFirst(serviceName, cache, selectors) ==
  [n \in DOMAIN selectors \cup {serviceName} |->
     IF n = serviceName
     THEN IF Len(ServicesOf(cache, serviceName)) = 0
          THEN CursorOf(selectors, serviceName)
          ELSE NextCursor(CursorOf(selectors, serviceName))
     ELSE selectors[n]]

\* serviceSelectors after getServiceInstance(serviceName).
SelectorsAfter(serviceName, cache, selectors) ==
  IF Len(ServicesOf(cache, serviceName)) = 0 THEN selectors
  ELSE [n \in DOMAIN selectors \cup {serviceName} |->
          IF n = serviceName
          THEN NextCursor(CursorOf(selectors, serviceName))
          ELSE selectors[n]]

\* ----------------------------------------------------------- auth gate

\* jwt.verify(token, JWT_SECRET): the decoded payload of a token signed with
\* the secret and not expired; any other token throws.
ValidTokens == {"t-admin", "t-noroles"}
Tokens == ValidTokens \cup {"t-expired", "t-forged"}
JwtVerifies(token) == token \in ValidTokens
JwtDecoded(token) ==
  IF token = "t-admin"
  THEN [id |-> "u1", roles |-> <<"admin">>, hasRoles |-> TRUE]
  ELSE [id |-> "u2", roles |-> <<>>, hasRoles |-> FALSE]

\* authHeader.split(' ')[1], "" when there is no second part.
TokenOf(authHeader) == IF Len(authHeader) >= 2 THEN authHeader[2] ELSE ""

\* The two rejections exchanged.
authenticateJWTSwapped(authHeader) ==
  IF authHeader = NoHeader THEN 403
  ELSE IF TokenOf(authHeader) = "" THEN 403
  ELSE IF JwtVerifies(TokenOf(authHeader)) THEN 0
  ELSE 401

\* The status authenticateJWT answers with, 0 when it calls next().
authenticateJWT(authHeader) ==
  IF authHeader = NoHeader THEN 401
  ELSE IF TokenOf(authHeader) = "" THEN 401
  ELSE IF JwtVerifies(TokenOf(authHeader)) THEN 0
  ELSE 403

\* req.user after authenticateJWT.
UserAfterAuth(authHeader) ==
  IF authenticateJWT(authHeader) = 0 THEN JwtDecoded(TokenOf(authHeader))
  ELSE NoUser

\* ------------------------------------------------------------- routes

\* The route table with /api/content registered before /api/content/admin.
RouteTableShadowed == <<
  [mount |-> <<"api", "services">>, exact |-> TRUE, requiresAuth |-> FALSE,
   handler |-> "services", service |-> "none"],
  [mount |-> <<"api", "auth">>, exact |-> FALSE, requiresAuth |-> FALSE,
   handler |-> "proxy", service |-> "auth-service"],
  [mount |-> <<"api", "content">>, exact |-> FALSE, requiresAuth |-> FALSE,
   handler |-> "proxy", service |-> "content-service"],
  [mount |-> <<"api", "content", "admin">>, exact |-> FALSE, requiresAuth |-> TRUE,
   handler |-> "proxy", service |-> "content-service"],
  [mount |-> <<"admin">>, exact |-> FALSE, requiresAuth |-> TRUE,
   handler |-> "proxy", service |-> "frontend"],
  [mount |-> <<"health">>, exact |-> TRUE, requiresAuth |-> FALSE,
   handler |-> "health", service |-> "none"],
  [mount |-> <<>>, exact |-> FALSE, requiresAuth |-> FALSE,
   handler |-> "fallback", service |-> "none"] >>

\* The handlers in the order the app registers them. A path is the
\* sequence of its segments; app.get matches the whole path, app.use a
\* prefix of it.
RouteTable == <<
  [mount |-> <<"api", "services">>, exact |-> TRUE, requiresAuth |-> FALSE,
   handler |-> "services", service |-> "none"],
  [mount |-> <<"api", "auth">>, exact |-> FALSE, requiresAuth |-> FALSE,
   handler |-> "proxy", service |-> "auth-service"],
  [mount |-> <<"api", "content", "admin">>, exact |-> FALSE, requiresAuth |-> TRUE,
   handler |-> "proxy", service |-> "content-service"],
  [mount |-> <<"api", "content">>, exact |-> FALSE, requiresAuth |-> FALSE,
   handler |-> "proxy", service |-> "content-service"],
  [mount |-> <<"admin">>, exact |-> FALSE, requiresAuth |-> TRUE,
   handler |-> "proxy", service |-> "frontend"],
  [mount |-> <<"health">>, exact |-> TRUE, requiresAuth |-> FALSE,
   handler |-> "health", service |-> "none"],
  [mount |-> <<>>, exact |-> FALSE, requiresAuth |-> FALSE,
   handler |-> "fallback", service |-> "none"] >>

IsPrefix(p, path) == Len(p) <= Len(path) /\ SubSeq(path, 1, Len(p)) = p

Matches(route, path) ==
  IF route.exact THEN path = route.mount ELSE IsPrefix(route.mount, path)

\* The first handler registered whose mount matches.
RouteOf(path) ==
  RouteTable[CHOOSE i \in 1..Len(RouteTable) :
               /\ Matches(RouteTable[i], path)
               /\ \A j \in 1..(i - 1) : ~Matches(RouteTable[j], path)]

\* The requests that arrive.
Paths == { <<"api", "services">>, <<"api", "auth", "login">>,
           <<"api", "content", "entries">>,
           <<"api", "content", "admin", "entries">>,
           <<"api", "content", "admin">>,
           <<"admin", "dashboard">>, <<"health">>, <<"missing">> }
AuthHeaders == { NoHeader, <<"Bearer">>, <<"Bearer", "t-admin">>,
                 <<"Bearer", "t-noroles">>, <<"Bearer", "t-expired">>,
                 <<"Bearer", "t-forged">>, <<"Basic", "t-admin">>,
                 <<"Bearer", "", "t-admin">> }

\* The x-correlation-id headers that arrive: absent, empty, a value.
CorrelationIds == { NoHeader, <<"">>, <<"abc123">> }

\* ---------------------------------------------------------- the proxy

\* A path is the sequence of the segments that follow its slashes: "/" is
\* the one empty segment, the empty string has none.
RootPath == <<"">>

\* path.replace(new RegExp(`^/api/${serviceName}`), '') || '/'. The paths
\* modelled have no segment that merely begins with a service name.
pathRewrite(path, serviceName) ==
  LET matches == Len(path) >= 2 /\ path[1] = "api" /\ path[2] = serviceName
      newPath == IF matches THEN SubSeq(path, 3, Len(path)) ELSE path
  IN  IF newPath = <<>> THEN RootPath ELSE newPath

\* `req-${Date.now()}-${Math.random()...}`: the random part is left out.
GeneratedId(t) == "req-" \o ToString(t)

\* An absent header is undefined and an empty one is '': both are falsy.
Falsy(header) == header = NoHeader \/ header = <<"">>

\* A correlation id generated for every request.
CorrelationIdFresh(header, t) == <<GeneratedId(t)>>

\* req.headers['x-correlation-id'] || `req-...`
CorrelationId(header, t) ==
  IF Falsy(header) THEN <<GeneratedId(t)>> ELSE header

\* JSON.stringify of a list of strings, as the sequence of its tokens.
RECURSIVE JsonItems(_)
JsonItems(list) ==
  IF list = <<>> THEN <<>>
  ELSE IF Len(list) = 1 THEN <<"\"" \o list[1] \o "\"">>
  ELSE <<"\"" \o list[1] \o "\"", ",">> \o JsonItems(Tail(list))

JSONStringify(list) == <<"[">> \o JsonItems(list) \o <<"]">>

\* The role list sent as it is, and no header without roles.
UserRolesHeaderRaw(user) == IF user.hasRoles THEN <<user.roles>> ELSE NoHeader

\* JSON.stringify(req.user.roles || [])
UserRolesHeader(user) ==
  <<JSONStringify(IF user.hasRoles THEN user.roles ELSE <<>>)>>

\* The request the proxy sends to the instance: the rewritten path and the
\* headers onProxyReq sets.
ProxyReq(req, t) ==
  [path |-> pathRewrite(req.path, req.service),
   correlation |-> CorrelationId(req.correlation, t),
   userId |-> IF req.user # NoUser THEN <<req.user.id>>
              ELSE req.identity.userId,
   userRoles |-> IF req.user # NoUser THEN UserRolesHeader(req.user)
                 ELSE req.identity.userRoles]

\* onError: res.status(500).json({ error: `Service communication error` })
OnErrorStatus(code) == 500

\* The failures of the upstream call, and the answers of an instance.
TransportErrors == {"ECONNREFUSED", "ETIMEDOUT"}
UpstreamStatuses == {200, 404}

\* --------------------------------------------------------------- Init

\* The state once the modules have loaded. The gateway: refreshServiceCache()
\* was called and awaits its axios.get, the refresh timer is set. The service
\* process: registerService() was called and awaits its axios.post.
Init ==
  /\ now = StartTime
  /\ registry = <<>>
  /\ nextReg = 0
  /\ serviceCache = EmptyCache
  /\ lastCacheUpdate = 0
  /\ serviceSelectors = [n \in {} |-> 0]
  /\ fetches = {[trigger |-> "startup", now |-> StartTime, req |-> NoRequest]}
  /\ nextTimer = StartTime + REFRESH_INTERVAL
  /\ response = NoResponse
  /\ applied = [services |-> <<>>, now |-> 0]
  /\ selLog = [n \in ServiceNames |-> <<>>]
  /\ reachable = TRUE
  /\ store = <<>>
  /\ nextId = 0
  /\ serviceId = NoId
  /\ calls = SetToBag({Call("register", NoId, "sent")})
  /\ retryTimers = <<>>
  /\ hbTimers = 0
  /\ process = "running"
  /\ svcLog = [deregistered |-> {}, evicted |-> {}, atSignal |-> NoId,
               obtained |-> {}, outage |-> FALSE]

\* ----------------------------------------------------------- registry

gatewayVars == <<serviceCache, lastCacheUpdate, serviceSelectors, fetches,
                 applied, selLog>>

RemoveAt(seq, i) == SubSeq(seq, 1, i - 1) \o SubSeq(seq, i + 1, Len(seq))

\* POST /services/register: the instance is listed last, active.
Register ==
  /\ nextReg < Len(RegOrder)
  /\ registry' = Append(registry, ServiceInfo(RegOrder[nextReg + 1], "active"))
  /\ nextReg' = nextReg + 1
  /\ response' = NoResponse
  /\ UNCHANGED <<now, nextTimer, gatewayVars>>
  /\ UNCHANGED serviceVars

\* The monitor's sweep finds the heartbeat older than staleThreshold.
MarkStale(i) ==
  /\ registry[i].status = "active"
  /\ registry[i].id \in Lapsing
  /\ registry' = [registry EXCEPT ![i].status = "stale"]
  /\ response' = NoResponse
  /\ UNCHANGED <<now, nextReg, nextTimer, gatewayVars>>
  /\ UNCHANGED serviceVars

\* PUT /services/{id}/heartbeat returns a stale instance to active.
Heartbeat(i) ==
  /\ registry[i].status = "stale"
  /\ registry' = [registry EXCEPT ![i].status = "active"]
  /\ response' = NoResponse
  /\ UNCHANGED <<now, nextReg, nextTimer, gatewayVars>>
  /\ UNCHANGED serviceVars

\* DELETE /services/{id}, or the sweep's eviction.
Remove(i) ==
  /\ registry[i].id \in Leaving
  /\ registry' = RemoveAt(registry, i)
  /\ response' = NoResponse
  /\ UNCHANGED <<now, nextReg, nextTimer, gatewayVars>>
  /\ UNCHANGED serviceVars

\* ------------------------------------------------------- the gateway

\* selLog once the cache map changed: a name whose list changed starts anew.
IdsOf(services) == [i \in 1..Len(services) |-> services[i].id]

LogAfterSwap(log, old, new) ==
  [n \in ServiceNames |->
     IF IdsOf(ServicesOf(old, n)) = IdsOf(ServicesOf(new, n)) THEN log[n]
     ELSE <<>>]

\* The synchronous part of refreshServiceCache(): the early return, or the
\* axios.get it then awaits.
FetchesAfterRefreshCall(trigger, req) ==
  IF CacheExpired(now, lastCacheUpdate)
  THEN fetches \cup {[trigger |-> trigger, now |-> now, req |-> req]}
  ELSE fetches

\* !serviceInstance: null or undefined.
Absent(serviceInstance) ==
  serviceInstance \in {NoInstance, UndefinedInstance}

\* createServiceProxy from getServiceInstance on: 503, or the upstream call
\* (status 0: the answer is the upstream's).
Forward(req, cache, log, refresh) ==
  LET services == ServicesOf(cache, req.service)
      serviceInstance == getServiceInstance(req.service, cache, serviceSelectors)
  IN  /\ serviceSelectors' = SelectorsAfter(req.service, cache, serviceSelectors)
      /\ selLog' = IF Len(services) = 0 THEN log
                   ELSE [log EXCEPT ![req.service] =
                           Append(@, [id |-> serviceInstance.id,
                                      cursor |-> CursorOf(serviceSelectors, req.service)])]
      /\ response' = [path |-> req.path, auth |-> req.auth,
                      status |-> IF Absent(serviceInstance) THEN 503 ELSE 0,
                      user |-> req.user, service |-> req.service,
                      target |-> serviceInstance, services |-> services,
                      refresh |-> refresh, correlation |-> req.correlation,
                      proxyReq |-> IF Absent(serviceInstance)
                                   THEN NoProxyReq ELSE ProxyReq(req, now),
                      upstream |-> IF Absent(serviceInstance)
                                   THEN "none" ELSE "pending",
                      headers |-> NoHeader]

\* An answer of the gateway's own; refresh tells how the refresh the handler
\* awaited ended ("none": it awaited none).
Reply(path, auth, status, refresh) ==
  [NoResponse EXCEPT !.path = path, !.auth = auth, !.status = status,
                     !.refresh = refresh]

\* A handler that gives up when the refresh it awaited failed.
ContinueRejecting(f, cache, log, refresh) ==
  IF f.trigger = "proxy" /\ refresh = "ok" THEN Forward(f.req, cache, log, refresh)
  ELSE /\ response' = IF f.trigger = "services"
                      THEN Reply(f.req.path, f.req.auth, 200, refresh)
                      ELSE IF f.trigger = "proxy"
                      THEN [Reply(f.req.path, f.req.auth, 503, refresh)
                              EXCEPT !.service = f.req.service]
                      ELSE NoResponse
       /\ selLog' = log
       /\ UNCHANGED serviceSelectors

\* What runs once the awaited refreshServiceCache() has returned.
Continue(f, cache, log, refresh) ==
  IF f.trigger = "proxy" THEN Forward(f.req, cache, log, refresh)
  ELSE /\ response' = IF f.trigger = "services"
                      THEN Reply(f.req.path, f.req.auth, 200, refresh)
                      ELSE NoResponse
       /\ selLog' = log
       /\ UNCHANGED serviceSelectors

\* lastCacheUpdate = now, the `now` read before the fetch.
StampCache(last, fetchNow) == fetchNow

\* axios.get resolves: group, swap, stamp, and the awaiting handler goes on.
FetchDeliver(f) ==
  LET services == registry
      newCache == SwapCache(serviceCache, GroupServices(services))
  IN  /\ fetches' = fetches \ {f}
      /\ serviceCache' = newCache
      /\ lastCacheUpdate' = StampCache(lastCacheUpdate, f.now)
      /\ applied' = [services |-> services, now |-> f.now]
      /\ Continue(f, newCache, LogAfterSwap(selLog, serviceCache, newCache), "ok")
      /\ UNCHANGED <<now, registry, nextReg, nextTimer>>
      /\ UNCHANGED serviceVars

\* axios.get rejects: the catch block, and the awaiting handler goes on.
FetchFail(f) ==
  LET newCache == CacheOnError(serviceCache)
  IN  /\ fetches' = fetches \ {f}
      /\ serviceCache' = newCache
      /\ lastCacheUpdate' = StampOnError(lastCacheUpdate)
      /\ Continue(f, newCache, LogAfterSwap(selLog, serviceCache, newCache), "failed")
      /\ UNCHANGED <<now, registry, nextReg, nextTimer, applied>>
      /\ UNCHANGED serviceVars

\* setInterval(refreshServiceCache, REFRESH_INTERVAL) fires.
TimerFire ==
  /\ now >= nextTimer
  /\ nextTimer' = nextTimer + REFRESH_INTERVAL
  /\ fetches' = FetchesAfterRefreshCall("timer", NoRequest)
  /\ Cardinality(fetches') <= MaxFetches
  /\ response' = NoResponse
  /\ UNCHANGED <<now, registry, nextReg, serviceCache, lastCacheUpdate,
                 serviceSelectors, applied, selLog>>
  /\ UNCHANGED serviceVars

\* Time passes; the timer fires when it is due.
TickTo(limit) ==
  /\ now < limit
  /\ now < nextTimer
  /\ now' = now + TimeStep
  /\ response' = NoResponse
  /\ UNCHANGED <<registry, nextReg, nextTimer, gatewayVars>>
  /\ UNCHANGED serviceVars

Tick == TickTo(MaxTime)

\* app.use('*'): no route matched.
HandleFallback(path, auth) ==
  /\ RouteOf(path).handler = "fallback"
  /\ response' = Reply(path, auth, 404, "none")
  /\ UNCHANGED <<now, registry, nextReg, nextTimer, gatewayVars>>
  /\ UNCHANGED serviceVars

\* GET /health: 200, or 503 when the registry does not answer.
HandleHealth(path, auth) ==
  /\ RouteOf(path).handler = "health"
  /\ \E status \in {200, 503} : response' = Reply(path, auth, status, "none")
  /\ UNCHANGED <<now, registry, nextReg, nextTimer, gatewayVars>>
  /\ UNCHANGED serviceVars

\* GET /api/services: await refreshServiceCache(), then the public list.
HandleServices(path, auth) ==
  LET req == [NoRequest EXCEPT !.path = path, !.auth = auth]
  IN  /\ RouteOf(path).handler = "services"
      /\ fetches' = FetchesAfterRefreshCall("services", req)
      /\ Cardinality(fetches') <= MaxFetches
      /\ response' = IF fetches' = fetches THEN Reply(path, auth, 200, "none")
                     ELSE NoResponse
      /\ UNCHANGED <<now, registry, nextReg, nextTimer, serviceCache,
                     lastCacheUpdate, serviceSelectors, applied, selLog>>
      /\ UNCHANGED serviceVars

\* A proxied route: the Auth Gate when the route has it, then the handler
\* createServiceProxy(serviceName) returns, up to its await or its end.
HandleProxy(path, auth, correlation, identity) ==
  LET route == RouteOf(path)
      gate == IF route.requiresAuth THEN authenticateJWT(auth) ELSE 0
      req == [path |-> path, auth |-> auth, correlation |-> correlation,
              identity |-> identity,
              user |-> IF route.requiresAuth THEN UserAfterAuth(auth) ELSE NoUser,
              service |-> route.service]
      cursors == CursorOf(serviceSelectors, "auth-service")
                 + CursorOf(serviceSelectors, "content-service")
                 + CursorOf(serviceSelectors, "frontend")
      awaiting == {f \in fetches : f.trigger = "proxy"}
  IN  /\ route.handler = "proxy"
      /\ IF gate # 0
         THEN /\ response' = Reply(path, auth, gate, "none")
              /\ UNCHANGED <<serviceSelectors, fetches, selLog>>
         ELSE IF CacheExpired(now, lastCacheUpdate)
         THEN /\ cursors + Cardinality(awaiting) < MaxSelections
              /\ fetches' = FetchesAfterRefreshCall("proxy", req)
              /\ fetches' # fetches
              /\ Cardinality(fetches') <= MaxFetches
              /\ response' = NoResponse
              /\ UNCHANGED <<serviceSelectors, selLog>>
         ELSE /\ cursors + Cardinality(awaiting) < MaxSelections
              /\ Forward(req, serviceCache, selLog, "none")
              /\ UNCHANGED fetches
      /\ UNCHANGED <<now, registry, nextReg, nextTimer, serviceCache,
                     lastCacheUpdate, applied>>
      /\ UNCHANGED serviceVars

\* The call to the instance fails: onError answers the caller.
UpstreamError(code) ==
  /\ response.upstream = "pending"
  /\ response' = [response EXCEPT !.status = OnErrorStatus(code),
                                  !.upstream = "error"]
  /\ UNCHANGED <<now, registry, nextReg, nextTimer, gatewayVars>>
  /\ UNCHANGED serviceVars

\* The instance answers: the proxy relays its status and its headers. No
\* service of the repository sets x-correlation-id on its answers.
UpstreamAnswer(status) ==
  /\ response.upstream = "pending"
  /\ response' = [response EXCEPT !.status = status, !.upstream = "answered"]
  /\ UNCHANGED <<now, registry, nextReg, nextTimer, gatewayVars>>
  /\ UNCHANGED serviceVars

\* The registry's side: instances come, lapse, recover and go.
RegistryStep ==
  \/ Register
  \/ \E i \in 1..Len(registry) : MarkStale(i)
  \/ \E i \in 1..Len(registry) : Heartbeat(i)
  \/ \E i \in 1..Len(registry) : Remove(i)

PublicPaths == {path \in Paths : ~RouteOf(path).requiresAuth}
ContentPaths == {path \in PublicPaths : RouteOf(path).service = "content-service"}

\* Refreshing: the timer, the clock and the requests that trigger a
\* refresh, against a registry whose instances come and go and whose
\* answers may fail.
Next ==
  \/ Register
  \/ \E i \in 1..Len(registry) : Remove(i)
  \/ Tick
  \/ TimerFire
  \/ \E f \in fetches : FetchDeliver(f)
  \/ \E f \in fetches : FetchFail(f)
  \/ \E path \in PublicPaths : HandleServices(path, NoHeader)
  \/ \E path \in ContentPaths : HandleProxy(path, NoHeader, NoHeader, NoIdentity)

Spec == Init /\ [][Next]_vars

\* Load balancing: requests to the public proxied routes while the refreshes
\* started at start-up complete, against every behaviour of the registry.
NextLB ==
  \/ RegistryStep
  \/ \E f \in fetches : FetchDeliver(f)
  \/ \E f \in fetches : FetchFail(f)
  \/ \E path \in PublicPaths : HandleProxy(path, NoHeader, NoHeader, NoIdentity)

SpecLB == Init /\ [][NextLB]_vars

\* The timer alone: no request arrives, the registry answers every fetch,
\* and answers it before the next timer period begins.
TickQuiet == fetches = {} /\ TickTo(MaxQuietTime)

NextTimer ==
  \/ RegistryStep
  \/ TickQuiet
  \/ TimerFire
  \/ \E f \in fetches : FetchDeliver(f)

SpecTimer == Init /\ [][NextTimer]_vars

\* The Auth Gate and the route table: every path with every Authorization
\* header, against a registry that answers and whose instances register.
NextGate ==
  \/ Register
  \/ \E f \in fetches : FetchDeliver(f)
  \/ \E path \in Paths : HandleFallback(path, NoHeader)
  \/ \E path \in Paths : HandleHealth(path, NoHeader)
  \/ \E path \in Paths : HandleServices(path, NoHeader)
  \/ \E path \in Paths \ PublicPaths, auth \in AuthHeaders :
       HandleProxy(path, auth, NoHeader, NoIdentity)
  \/ \E path \in PublicPaths : HandleProxy(path, NoHeader, NoHeader, NoIdentity)

SpecGate == Init /\ [][NextGate]_vars

\* The proxy: the proxied routes with and without a Principal and with
\* every x-correlation-id header, the instance answering or the call to it
\* failing, against a registry that answers and whose instances register.
\* The time does not pass, and the cache once fetched stays fresh.
ProxiedPaths == {path \in Paths : RouteOf(path).handler = "proxy"}
PrincipalHeaders == { <<"Bearer", "t-admin">>, <<"Bearer", "t-noroles">>,
                      <<"Bearer", "t-expired">> }

\* The identity headers that arrive: none, or a client's own.
Identities == {NoIdentity, ClientIdentity}

\* A request that arrives once the start-up refresh has completed.
ProxyRequest(path, auth, correlation, identity) ==
  fetches = {} /\ HandleProxy(path, auth, correlation, identity)

NextProxy ==
  \/ Register
  \/ \E f \in fetches : FetchDeliver(f)
  \/ \E path \in ProxiedPaths \ PublicPaths, auth \in PrincipalHeaders,
        correlation \in CorrelationIds, identity \in Identities :
       ProxyRequest(path, auth, correlation, identity)
  \/ \E path \in PublicPaths, correlation \in CorrelationIds,
        identity \in Identities :
       ProxyRequest(path, NoHeader, correlation, identity)
  \/ \E code \in TransportErrors : UpstreamError(code)
  \/ \E status \in UpstreamStatuses : UpstreamAnswer(status)

SpecProxy == Init /\ [][NextProxy]_vars

\* ------------------------------------------------- the Registry Store

\* What the service actions leave alone: the gateway and its view.
frontVars == <<registry, nextReg, nextTimer, response, gatewayVars>>

StoreHas(s, id) == \E i \in 1..Len(s) : s[i].id = id

\* register(): the instance is created active, lastHeartbeat = now.
StoreRegister(s, id) ==
  Append(s, [id |-> id, status |-> "active", age |-> 0])

\* heartbeat(): lastHeartbeat = now, and a stale instance is active again.
StoreHeartbeat(s, id) ==
  [i \in 1..Len(s) |->
     IF s[i].id = id THEN [s[i] EXCEPT !.status = "active", !.age = 0]
     ELSE s[i]]

\* deregister(): the instance is removed immediately.
StoreDeregister(s, id) == SelectSeq(s, LAMBDA e : e.id # id)

\* The call c answered with result and id.
Answered(cs, c, id, result) ==
  (cs (-) SetToBag({c})) (+) SetToBag({Call(c.op, id, result)})

InFlight(c, op, result) == BagIn(c, calls) /\ c.op = op /\ c.result = result

\* POST /services/register reaches the store: a new id, never issued before.
HandleRegister(c) ==
  /\ reachable
  /\ InFlight(c, "register", "sent")
  /\ nextId < MaxIds
  /\ nextId' = nextId + 1
  /\ store' = StoreRegister(store, nextId + 1)
  /\ calls' = Answered(calls, c, nextId + 1, "ok")
  /\ UNCHANGED <<now, frontVars, reachable, serviceId, retryTimers, hbTimers,
                 process, svcLog>>

\* PUT /services/{id}/heartbeat reaches the store: ok, or NotFound (404).
\* The process only logs the ok: the call is over.
HandleHeartbeat(c) ==
  /\ reachable
  /\ InFlight(c, "heartbeat", "sent")
  /\ IF StoreHas(store, c.id)
     THEN /\ store' = StoreHeartbeat(store, c.id)
          /\ calls' = calls (-) SetToBag({c})
     ELSE /\ store' = store
          /\ calls' = Answered(calls, c, c.id, "failed")
  /\ UNCHANGED <<now, frontVars, reachable, nextId, serviceId, retryTimers,
                 hbTimers, process, svcLog>>

\* DELETE /services/{id} reaches the store: ok, or NotFound (404).
HandleDeregister(c) ==
  /\ reachable
  /\ InFlight(c, "delete", "sent")
  /\ IF StoreHas(store, c.id)
     THEN /\ store' = StoreDeregister(store, c.id)
          /\ calls' = Answered(calls, c, c.id, "ok")
          /\ svcLog' = [svcLog EXCEPT !.deregistered = @ \cup {c.id}]
     ELSE /\ store' = store
          /\ calls' = Answered(calls, c, c.id, "failed")
          /\ svcLog' = svcLog
  /\ UNCHANGED <<now, frontVars, reachable, nextId, serviceId, retryTimers,
                 hbTimers, process>>

\* The registry cannot be reached: the call fails.
CallFails(c) ==
  /\ ~reachable
  /\ BagIn(c, calls)
  /\ c.result = "sent"
  /\ calls' = Answered(calls, c, c.id, "failed")
  /\ UNCHANGED <<now, frontVars, reachable, store, nextId, serviceId,
                 retryTimers, hbTimers, process, svcLog>>

\* The registry becomes unreachable, or reachable again.
ToggleReachable ==
  /\ reachable' = ~reachable
  /\ svcLog' = IF process \in {"deregistering", "closing"}
               THEN [svcLog EXCEPT !.outage = TRUE]
               ELSE svcLog
  /\ UNCHANGED <<now, frontVars, store, nextId, serviceId, calls, retryTimers,
                 hbTimers, process>>

\* The Heartbeat Monitor examines one instance: evicted when its heartbeat
\* is older than EVICT_THRESHOLD, stale when older than STALE_THRESHOLD.
SweepInstance(i) ==
  LET age == store[i].age
  IN  /\ IF age > EVICT_THRESHOLD
         THEN /\ store' = StoreDeregister(store, store[i].id)
              /\ svcLog' = [svcLog EXCEPT !.evicted = @ \cup {store[i].id}]
         ELSE /\ age > STALE_THRESHOLD
              /\ store[i].status = "active"
              /\ store' = [store EXCEPT ![i].status = "stale"]
              /\ svcLog' = svcLog
      /\ UNCHANGED <<now, frontVars, reachable, nextId, serviceId, calls,
                     retryTimers, hbTimers, process>>

\* Time passes.
Elapse ==
  /\ \E i \in 1..Len(store) : store[i].age < AgeCap
  /\ store' = [i \in 1..Len(store) |->
                 IF store[i].age < AgeCap
                 THEN [store[i] EXCEPT !.age = @ + AgeStep]
                 ELSE store[i]]
  /\ UNCHANGED <<now, frontVars, reachable, nextId, serviceId, calls,
                 retryTimers, hbTimers, process, svcLog>>

\* ------------------------------------------------ a service process

\* The handlers of the process run until process.exit.
Running == process \notin {"exited0", "exited1"}

\* registerService() up to its await: the axios.post is in flight.
registerService(cs) == cs (+) SetToBag({Call("register", NoId, "sent")})

\* A catch block that only logs: no further attempt.
TimersAfterFailureNone(timers) == timers

\* The catch block of registerService: setTimeout(registerService, 5000).
TimersAfterFailure(timers) == Append(timers, REGISTER_RETRY_DELAY)

\* A catch block of sendHeartbeat that only logs.
CallsAfterHeartbeatFailureNone(cs) == cs

\* The catch block of sendHeartbeat calls registerService().
CallsAfterHeartbeatFailure(cs) == registerService(cs)

\* A handler that exits without deregistering, as the gateway's does.
PhaseAfterSignalNoDelete(id) == "closing"

\* if (serviceId) await axios.delete(...), then the connection is closed.
PhaseAfterSignal(id) == IF id # NoId THEN "deregistering" ELSE "closing"

\* axios.post resolves: serviceId is set and a heartbeat timer is started.
RegisterResolved(c) ==
  /\ Running
  /\ InFlight(c, "register", "ok")
  /\ serviceId' = c.id
  /\ hbTimers' = hbTimers + 1
  /\ calls' = calls (-) SetToBag({c})
  /\ svcLog' = [svcLog EXCEPT !.obtained = @ \cup {c.id}]
  /\ UNCHANGED <<now, frontVars, reachable, store, nextId, retryTimers,
                 process>>

\* axios.post rejects: one further attempt is scheduled.
RegisterRejected(c) ==
  /\ Running
  /\ InFlight(c, "register", "failed")
  /\ retryTimers' = TimersAfterFailure(retryTimers)
  /\ calls' = calls (-) SetToBag({c})
  /\ UNCHANGED <<now, frontVars, reachable, store, nextId, serviceId,
                 hbTimers, process, svcLog>>

\* A setTimeout(registerService, 5000) timer fires.
RetryFire ==
  /\ Running
  /\ retryTimers # <<>>
  /\ BagCardinality(calls) < MaxCalls
  /\ retryTimers' = Tail(retryTimers)
  /\ calls' = registerService(calls)
  /\ UNCHANGED <<now, frontVars, reachable, store, nextId, serviceId,
                 hbTimers, process, svcLog>>

\* A heartbeat timer fires: sendHeartbeat() up to its await. With serviceId
\* null it returns at once.
HeartbeatFire ==
  /\ Running
  /\ hbTimers > 0
  /\ serviceId # NoId
  /\ BagCardinality(calls) < MaxCalls
  /\ calls' = calls (+) SetToBag({Call("heartbeat", serviceId, "sent")})
  /\ UNCHANGED <<now, frontVars, reachable, store, nextId, serviceId,
                 retryTimers, hbTimers, process, svcLog>>

\* axios.put rejects: serviceId = null; registerService().
HeartbeatRejected(c) ==
  /\ Running
  /\ InFlight(c, "heartbeat", "failed")
  /\ serviceId' = NoId
  /\ calls' = CallsAfterHeartbeatFailure(calls (-) SetToBag({c}))
  /\ UNCHANGED <<now, frontVars, reachable, store, nextId, retryTimers,
                 hbTimers, process, svcLog>>

\* SIGTERM or SIGINT: the handler up to its first await.
Signal ==
  /\ process = "running"
  /\ BagCardinality(calls) < MaxCalls
  /\ process' = PhaseAfterSignal(serviceId)
  /\ calls' = IF process' = "deregistering"
              THEN calls (+) SetToBag({Call("delete", serviceId, "sent")})
              ELSE calls
  /\ svcLog' = [svcLog EXCEPT !.atSignal = serviceId, !.outage = ~reachable]
  /\ UNCHANGED <<now, frontVars, reachable, store, nextId, serviceId,
                 retryTimers, hbTimers>>

\* axios.delete resolves: the handler goes on to close the connection.
DeleteResolved(c) ==
  /\ process = "deregistering"
  /\ InFlight(c, "delete", "ok")
  /\ process' = "closing"
  /\ calls' = calls (-) SetToBag({c})
  /\ UNCHANGED <<now, frontVars, reachable, store, nextId, serviceId,
                 retryTimers, hbTimers, svcLog>>

\* axios.delete rejects: the catch block, process.exit(1).
DeleteRejected(c) ==
  /\ process = "deregistering"
  /\ InFlight(c, "delete", "failed")
  /\ process' = "exited1"
  /\ calls' = calls (-) SetToBag({c})
  /\ UNCHANGED <<now, frontVars, reachable, store, nextId, serviceId,
                 retryTimers, hbTimers, svcLog>>

\* The connection is closed: process.exit(0).
CloseDone ==
  /\ process = "closing"
  /\ process' = "exited0"
  /\ UNCHANGED <<now, frontVars, reachable, store, nextId, serviceId, calls,
                 retryTimers, hbTimers, svcLog>>

\* The steps of the process, and those of the registry and the network.
ProcessStep ==
  \/ \E c \in BagToSet(calls) : RegisterResolved(c)
  \/ \E c \in BagToSet(calls) : RegisterRejected(c)
  \/ RetryFire
  \/ HeartbeatFire
  \/ \E c \in BagToSet(calls) : HeartbeatRejected(c)

StoreStep ==
  \/ \E c \in BagToSet(calls) : HandleRegister(c)
  \/ \E c \in BagToSet(calls) : HandleHeartbeat(c)
  \/ \E c \in BagToSet(calls) : CallFails(c)

\* A service process from its start to its exit and the Registry Store, as
\* the registry comes and goes. No time passes for the Heartbeat Monitor.
NextService ==
  \/ ProcessStep
  \/ StoreStep
  \/ \E c \in BagToSet(calls) : HandleDeregister(c)
  \/ ToggleReachable
  \/ Signal
  \/ \E c \in BagToSet(calls) : DeleteResolved(c)
  \/ \E c \in BagToSet(calls) : DeleteRejected(c)
  \/ CloseDone

SpecService == Init /\ [][NextService]_vars

\* A service process that is not signalled, the Registry Store and the
\* Heartbeat Monitor, as time passes and the registry comes and goes.
NextMonitor ==
  \/ ProcessStep
  \/ StoreStep
  \/ \E i \in 1..Len(store) : SweepInstance(i)
  \/ Elapse
  \/ ToggleReachable

SpecMonitor == Init /\ [][NextMonitor]_vars

\* Registration alone: the process is not signalled and no time passes. The
\* event loop runs every timer that is due and every call ends, answered or
\* failed.
NextRetry ==
  \/ ProcessStep
  \/ StoreStep
  \/ ToggleReachable

SpecRetry ==
  /\ Init
  /\ [][NextRetry]_vars
  /\ WF_vars(ProcessStep)
  /\ WF_vars(StoreStep)

\* ------------------------------------------------------------- claims

\* The position of an instance id in a list (0: not in it).
PosOf(services, id) ==
  IF \E p \in 1..Len(services) : services[p].id = id
  THEN CHOOSE p \in 1..Len(services) : services[p].id = id
  ELSE 0

LogIds(n) == [j \in 1..Len(selLog[n]) |-> selLog[n][j].id]

\* C1: while the cached list of a name stays the same list of k >= 1
\* instances, the selections made over it return list members, each the
\* cyclic successor of the one before, so that any k consecutive selections
\* return each of the k instances exactly once; a selection on a fresh
\* cursor returns the first instance; with A, B, C cached in that order,
\* four selections starting on a fresh cursor return A, B, C, A.
C1_StrictRotation ==
  \A n \in ServiceNames :
    LET services == ServicesOf(serviceCache, n)
        k == Len(services)
        log == selLog[n]
    IN  /\ \A j \in 1..Len(log) : PosOf(services, log[j].id) >= 1
        /\ \A j \in 1..(Len(log) - 1) :
             PosOf(services, log[j + 1].id) = (PosOf(services, log[j].id) % k) + 1
        /\ \A j \in 1..(Len(log) - k + 1) :
             {log[i].id : i \in j..(j + k - 1)} = {services[p].id : p \in 1..k}
        /\ \A j \in 1..Len(log) : log[j].cursor = 0 => log[j].id = services[1].id
        /\ ( /\ IdsOf(services) = <<"A", "B", "C">>
             /\ Len(log) >= 4
             /\ log[1].cursor = 0 )
           => SubSeq(LogIds(n), 1, 4) = <<"A", "B", "C", "A">>

\* C1's case: four selections over the cached list A, B, C.
C1_Witness ==
  /\ IdsOf(ServicesOf(serviceCache, "content-service")) = <<"A", "B", "C">>
  /\ LogIds("content-service") = <<"A", "B", "C", "A">>

\* C2: the instance getServiceInstance returns has status 'active'.
C2_OnlyActiveSelected ==
  response.target # NoInstance => response.target.status = "active"

\* C3: a proxied request whose name has no active instance in the cache at
\* the selection is answered 503 and makes no upstream call.
C3_NoHealthyIs503 ==
  ( /\ response.service \in ServiceNames
    /\ \A i \in 1..Len(response.services) :
         response.services[i].status # "active" )
  => (response.status = 503 /\ response.target = NoInstance)

\* C4: a refresh whose registry fetch fails leaves serviceCache and
\* lastCacheUpdate exactly as they were.
C4_ServeStaleOnError ==
  [][(\E f \in fetches : FetchFail(f))
       => (serviceCache' = serviceCache /\ lastCacheUpdate' = lastCacheUpdate)]_vars

\* C4's case: a request that awaited a failed refresh is forwarded to an
\* instance of the snapshot fetched before.
C4_Witness ==
  /\ response.refresh = "failed"
  /\ response.target # NoInstance
  /\ response.target \in {serviceCache[response.service][i] :
                             i \in 1..Len(serviceCache[response.service])}

\* C5: in every state the cache map is the grouping of one complete
\* registry response (each name's list is that response's instances of the
\* name, in its order; no other name is cached) and lastCacheUpdate is the
\* `now` of the refresh that fetched that same response.
C5_AllOrNothing ==
  /\ DOMAIN serviceCache =
       {applied.services[i].name : i \in 1..Len(applied.services)}
  /\ \A n \in DOMAIN serviceCache :
       serviceCache[n] = SelectSeq(applied.services, LAMBDA s : s.name = n)
  /\ lastCacheUpdate = applied.now

\* C5's case: a response fetched after start-up is cached, swapped in while
\* a proxied request waits for a refresh of its own.
C5_Witness ==
  /\ serviceCache # EmptyCache
  /\ lastCacheUpdate > StartTime
  /\ \E f \in fetches : f.trigger = "proxy"

\* C6: at most one GET /services fetch is in flight at any moment.
C6_OneFetchInFlight == Cardinality(fetches) <= 1

\* C7: no proxied request waits for a registry fetch before it selects.
C7_RequestNeverWaits ==
  /\ \A f \in fetches : f.trigger # "proxy"
  /\ response.service \in ServiceNames => response.refresh = "none"

\* C8 as claimed: every firing of the timer starts a fetch.
C8_EveryFiringFetches == [][TimerFire => fetches' # fetches]_vars

\* C8, amended: a firing of the timer starts a fetch exactly when the
\* snapshot is at least SERVICE_CACHE_TTL old, and with the registry
\* answering and no request arriving the snapshot's age stays within
\* SERVICE_CACHE_TTL plus one timer period.
C8_TimerRefreshesExpired ==
  /\ [][TimerFire => ((fetches' # fetches)
                        <=> (now - lastCacheUpdate >= SERVICE_CACHE_TTL))]_vars
  /\ [](lastCacheUpdate > 0
          => now - lastCacheUpdate <= SERVICE_CACHE_TTL + REFRESH_INTERVAL)

\* C8's case: a fetch the timer started was swapped in, one TTL after the
\* start-up refresh.
C8_Witness ==
  /\ fetches = {}
  /\ lastCacheUpdate = StartTime + SERVICE_CACHE_TTL

IsProtected(path) ==
  IsPrefix(<<"api", "content", "admin">>, path) \/ IsPrefix(<<"admin">>, path)

\* C9: a request to /api/content/admin... or /admin... reaches the proxy
\* handler (an upstream call, or its 503) only with a token that verifies
\* and with the decoded Principal attached.
C9_ProtectedNeedsToken ==
  (IsProtected(response.path) /\ response.service \in ServiceNames)
  => /\ JwtVerifies(TokenOf(response.auth))
     /\ response.user = JwtDecoded(TokenOf(response.auth))

\* C9's case: an upstream call for a path under /api/content/admin.
C9_Witness ==
  /\ response.path = <<"api", "content", "admin", "entries">>
  /\ response.status = 0
  /\ response.target # NoInstance
  /\ response.user = JwtDecoded("t-admin")

\* C10: on a protected route no Authorization header is answered 401, a
\* token that fails verification 403, and exactly the requests whose token
\* verifies are passed on, with the decoded Principal attached.
C10_AuthGateOutcomes ==
  (IsProtected(response.path) /\ response # NoResponse)
  => LET h == response.auth
         passed == response.service \in ServiceNames
     IN  /\ h = NoHeader => response.status = 401
         /\ (TokenOf(h) # "" /\ ~JwtVerifies(TokenOf(h))) => response.status = 403
         /\ passed <=> JwtVerifies(TokenOf(h))
         /\ passed => response.user = JwtDecoded(TokenOf(h))
         /\ passed <=> response.status \notin {401, 403}
         /\ ~passed => response.user = NoUser

\* C10's case: a protected route answers a forged token with 403.
C10_Witness ==
  /\ IsProtected(response.path)
  /\ response.auth = <<"Bearer", "t-forged">>
  /\ response.status = 403

\* C11: when the call to the instance fails to connect or times out, the
\* caller receives a gateway-unavailable (503) or gateway-timeout (504)
\* status, never a generic 500.
C11_TransportErrorsTyped ==
  response.upstream = "error" => response.status \in {503, 504}

\* The inbound path without its /api/<service> prefix, "/" when nothing
\* remains.
StrippedPath(path) ==
  LET rest == IF Len(path) >= 2 /\ path[1] = "api"
              THEN SubSeq(path, 3, Len(path)) ELSE path
  IN  IF rest = <<>> THEN RootPath ELSE rest

\* C12: the path sent upstream is the inbound path with the route's
\* /api/<service> prefix removed, "/" when nothing remains: /api/auth/login
\* reaches the instance as /login.
C12_PrefixStripped ==
  response.upstream # "none" =>
    response.proxyReq.path = StrippedPath(response.path)

\* C13: every request sent upstream carries one non-empty x-correlation-id
\* header; it is the inbound value when the inbound request supplied one,
\* and a generated id only when the inbound request supplied none (no
\* header, or an empty one).
C13_CorrelationPropagated ==
  response.upstream # "none" =>
    /\ Len(response.proxyReq.correlation) = 1
    /\ response.proxyReq.correlation[1] # ""
    /\ ~Falsy(response.correlation) =>
          response.proxyReq.correlation = response.correlation
    /\ response.proxyReq.correlation # response.correlation =>
          Falsy(response.correlation)

C13_Witness ==
  /\ response.upstream = "pending"
  /\ response.correlation = <<"abc123">>
  /\ response.proxyReq.correlation = <<"abc123">>

\* C14: the answer the caller of a proxied request receives carries an
\* x-correlation-id header equal to the id sent upstream, also when the
\* gateway answers with an error.
C14_CorrelationEchoed ==
  response.upstream \in {"error", "answered"} =>
    response.headers = response.proxyReq.correlation

\* C15: when a Principal is attached to a proxied request, the request sent
\* upstream carries x-user-id equal to the Principal's id and x-user-roles
\* equal to the JSON text of its role list, "[]" when the token has no
\* roles.
C15_IdentityForwarded ==
  (response.upstream # "none" /\ response.user # NoUser) =>
    /\ response.proxyReq.userId = <<response.user.id>>
    /\ response.user.hasRoles =>
          response.proxyReq.userRoles = <<JSONStringify(response.user.roles)>>
    /\ response.user.roles = <<"admin">> =>
          response.proxyReq.userRoles = << <<"[", "\"admin\"", "]">> >>
    /\ ~response.user.hasRoles =>
          response.proxyReq.userRoles = << <<"[", "]">> >>

C15_Witness ==
  /\ response.upstream = "pending"
  /\ response.user.id = "u2"
  /\ ~response.user.hasRoles
  /\ response.proxyReq.userId = <<"u2">>
  /\ response.proxyReq.userRoles = << <<"[", "]">> >>

\* C17: a fetch of the registry that fails reaches the caller of a proxied
\* request only through an empty cache: the request that awaited the fetch
\* is forwarded to an instance cached for its name when there is one, and
\* is answered 503 when there is none; the 503 of a proxied request always
\* means that the cache held no instance for the name.
C17_FailureOnlyThroughEmptyCache ==
  /\ [][\A f \in fetches :
          (FetchFail(f) /\ f.trigger = "proxy") =>
            LET cached == ServicesOf(serviceCache, f.req.service)
            IN  IF Len(cached) > 0
                THEN /\ response'.status = 0
                     /\ response'.upstream = "pending"
                     /\ \E i \in 1..Len(cached) : response'.target = cached[i]
                ELSE response'.status = 503]_vars
  /\ [](response.service # "none" /\ response.status = 503 =>
          ServicesOf(serviceCache, response.service) = <<>>)

C17_Witness ==
  /\ response.refresh = "failed"
  /\ response.status = 0
  /\ response.target # NoInstance
  /\ response.target = ServicesOf(serviceCache, response.service)[1]

\* C16: a registerService() that fails schedules exactly one further attempt
\* after the fixed delay of 5000 ms and does not end the process; a retry
\* timer that fires makes exactly one attempt; and if the registry is
\* eventually reachable for good, the process eventually holds a serviceId
\* and runs a heartbeat timer.
C16_RetriesUntilRegistered ==
  /\ [][\A c \in BagToSet(calls) :
          RegisterRejected(c) =>
            /\ retryTimers' = Append(retryTimers, REGISTER_RETRY_DELAY)
            /\ process' = "running"]_vars
  /\ [][RetryFire =>
          /\ Len(retryTimers') = Len(retryTimers) - 1
          /\ calls' = calls (+) SetToBag({Call("register", NoId, "sent")})]_vars
  /\ [](\A i \in 1..Len(retryTimers) : retryTimers[i] = REGISTER_RETRY_DELAY)
  /\ (<>[]reachable => <>(serviceId # NoId /\ hbTimers >= 1))

C16_Witness ==
  /\ retryTimers = <<REGISTER_RETRY_DELAY>>
  /\ calls = EmptyBag
  /\ serviceId = NoId
  /\ process = "running"

\* C18: the store never lists an instance id after it deregistered it; once
\* a process whose handler found a serviceId has exited with code 0, that id
\* is not listed; and a heartbeat for a deregistered id is answered NotFound
\* and leaves the store as it is.
C18_DeregisteredStaysGone ==
  /\ [](\A id \in svcLog.deregistered : ~StoreHas(store, id))
  /\ []((process = "exited0" /\ svcLog.atSignal # NoId) =>
          ~StoreHas(store, svcLog.atSignal))
  /\ [][\A c \in BagToSet(calls) :
          (HandleHeartbeat(c) /\ c.id \in svcLog.deregistered) =>
            /\ store' = store
            /\ BagIn(Call("heartbeat", c.id, "failed"), calls')]_vars

C18_Witness ==
  /\ process = "exited0"
  /\ svcLog.atSignal \in svcLog.deregistered
  /\ BagIn(Call("heartbeat", svcLog.atSignal, "failed"), calls)
  /\ ~StoreHas(store, svcLog.atSignal)

\* C19: with A, B and C registered and B silent beyond staleThreshold, the
\* rotation over a cached list that shows B stale returns only A and C.
C19_RotationSkipsSilent ==
  ( /\ response.status = 0
    /\ response.service = "content-service"
    /\ \E i \in 1..Len(response.services) :
         response.services[i] = ServiceInfo("B", "stale") )
  => response.target.id # "B"

\* C20: a sweep evicts an instance only when no heartbeat was applied to it
\* within EVICT_THRESHOLD; an evicted id is never listed again, whatever
\* heartbeat arrives for it; an id enters the store only by a register()
\* that issues a new id; and a heartbeat call that fails makes sendHeartbeat
\* drop the serviceId and call registerService().
C20_HeartbeatVersusEviction ==
  /\ [](\A id \in svcLog.evicted : ~StoreHas(store, id))
  /\ [][\A i \in 1..Len(store) :
          (SweepInstance(i) /\ ~StoreHas(store', store[i].id)) =>
            store[i].age > EVICT_THRESHOLD]_vars
  /\ [][\A id \in 1..nextId' :
          (StoreHas(store', id) /\ ~StoreHas(store, id)) =>
            /\ id = nextId + 1
            /\ nextId' = id
            /\ \E c \in BagToSet(calls) : HandleRegister(c)]_vars
  /\ [][\A c \in BagToSet(calls) :
          HeartbeatRejected(c) =>
            /\ serviceId' = NoId
            /\ BagIn(Call("register", NoId, "sent"), calls')]_vars

C20_Witness ==
  /\ svcLog.evicted = {1}
  /\ serviceId = 2
  /\ store = <<[id |-> 2, status |-> "active", age |-> 0]>>
  /\ calls = EmptyBag

\* C21: every step moves the cursor of a name by nothing or by one, and by
\* one exactly when the step makes a selection for that name, whatever
\* requests wait for a refresh meanwhile; the selections over an unchanged
\* list carry consecutive cursor values, the last of them one below the
\* cursor, and two selections made back to back over a list of two or more
\* instances return different instances.
C21_CursorStepsByOne ==
  /\ [][\A n \in ServiceNames :
          LET selected == /\ response'.service = n
                          /\ response'.upstream = "pending"
          IN  /\ selected =>
                   CursorOf(serviceSelectors', n) = CursorOf(serviceSelectors, n) + 1
              /\ ~selected =>
                   CursorOf(serviceSelectors', n) = CursorOf(serviceSelectors, n)]_vars
  /\ [](\A n \in ServiceNames :
          LET log == selLog[n]
          IN  /\ \A j \in 1..(Len(log) - 1) :
                   /\ log[j + 1].cursor = log[j].cursor + 1
                   /\ Len(ServicesOf(serviceCache, n)) >= 2 =>
                        log[j + 1].id # log[j].id
              /\ Len(log) >= 1 =>
                   CursorOf(serviceSelectors, n) = log[Len(log)].cursor + 1)

\* C21's case: B is selected by a request that waited for a refresh while
\* the selection before it was made.
C21_Witness ==
  /\ response.refresh = "ok"
  /\ response.upstream = "pending"
  /\ LogIds("content-service") = <<"A", "B">>
  /\ CursorOf(serviceSelectors, "content-service") = 2

\* C22: a step changes the cursor of no name but the one it selects for; a
\* call that finds no instance leaves serviceSelectors as it was, without an
\* entry for the name; and the selection of a request that awaits no
\* refresh leaves the cache map and lastCacheUpdate unchanged.
C22_CursorsPerName ==
  /\ [][/\ \A n \in ServiceNames \ {response'.service} :
            /\ CursorOf(serviceSelectors', n) = CursorOf(serviceSelectors, n)
            /\ n \in DOMAIN serviceSelectors' => n \in DOMAIN serviceSelectors
        /\ response'.status = 503 => serviceSelectors' = serviceSelectors
        /\ (response'.service \in ServiceNames /\ response'.refresh = "none") =>
             /\ serviceCache' = serviceCache
             /\ lastCacheUpdate' = lastCacheUpdate]_vars

\* C22's case: no instance for auth-service after selections for
\* content-service.
C22_Witness ==
  /\ response.service = "auth-service"
  /\ response.status = 503
  /\ response.refresh = "none"
  /\ "auth-service" \notin DOMAIN serviceSelectors
  /\ CursorOf(serviceSelectors, "content-service") >= 2

\* C23: a selection over a non-empty cached list returns an element of the
\* list cached at the time of the call, whatever the cursor and however the
\* list changed since the selection before: never null, undefined or an
\* instance the cache no longer holds.
C23_SelectionWithinList ==
  (response.service \in ServiceNames /\ Len(response.services) >= 1) =>
    /\ response.status = 0
    /\ ~Absent(response.target)
    /\ \E i \in 1..Len(response.services) :
         response.target = response.services[i]
    /\ response.services = ServicesOf(serviceCache, response.service)

\* C23's case: a selection with a cursor beyond the end of a list that
\* shrank.
C23_Witness ==
  /\ response.status = 0
  /\ response.service = "content-service"
  /\ Len(response.services) = 1
  /\ selLog["content-service"][Len(selLog["content-service"])].cursor >= 2

\* The places <<name, position>> at which the cache holds the instance.
PlacesOf(cache, service) ==
  {p \in UNION {{<<n, j>> : j \in 1..Len(cache[n])} : n \in DOMAIN cache} :
     cache[p[1]][p[2]] = service}

\* C24: the cache is an order-preserving partition of the registry response
\* last swapped in: every listed instance is held at exactly one place, in
\* the group of its own name; two instances of a name keep the order they
\* have in the response; the cache holds nothing else, no group is empty,
\* and a name the response does not list has no key.
C24_OrderPreservingPartition ==
  LET listed == applied.services
  IN  /\ \A i \in 1..Len(listed) :
           /\ Cardinality(PlacesOf(serviceCache, listed[i])) = 1
           /\ \A p \in PlacesOf(serviceCache, listed[i]) : p[1] = listed[i].name
      /\ \A i, j \in 1..Len(listed) :
           (i < j /\ listed[i].name = listed[j].name) =>
             \A p \in PlacesOf(serviceCache, listed[i]) :
               \A q \in PlacesOf(serviceCache, listed[j]) : p[2] < q[2]
      /\ \A n \in DOMAIN serviceCache :
           /\ Len(serviceCache[n]) >= 1
           /\ \E i \in 1..Len(listed) : listed[i].name = n
           /\ \A j \in 1..Len(serviceCache[n]) :
                \E i \in 1..Len(listed) : listed[i] = serviceCache[n][j]

\* C24's case: a later refresh whose response lists the auth-service
\* instance alone, after both content-service instances registered before it
\* have left: content-service has no key.
C24_Witness ==
  /\ lastCacheUpdate > StartTime
  /\ applied.now = lastCacheUpdate
  /\ nextReg >= 3
  /\ IdsOf(ServicesOf(serviceCache, "auth-service")) = <<"D">>
  /\ "content-service" \notin DOMAIN serviceCache

\* An Authorization header of the form "Bearer <token>".
BearerForm(authHeader) ==
  /\ Len(authHeader) = 2
  /\ authHeader[1] = "Bearer"
  /\ authHeader[2] # ""

\* C25: on a protected route a request is passed on only when its
\* Authorization header is "Bearer <token>" with a token that verifies; a
\* header with no token part or with another scheme is answered 401 and is
\* not dispatched.
C25_BearerOnly ==
  (IsProtected(response.path) /\ response # NoResponse)
  => LET h == response.auth
         passed == response.service \in ServiceNames
     IN  /\ passed => (BearerForm(h) /\ JwtVerifies(h[2]))
         /\ (h # NoHeader /\ ~BearerForm(h)) =>
              (response.status = 401 /\ ~passed)

\* C26: refreshes apply in start order: no step replaces the snapshot and
\* lastCacheUpdate of a fetch by those of a fetch started before it, so
\* lastCacheUpdate never decreases.
C26_AppliedInStartOrder ==
  [][/\ lastCacheUpdate' >= lastCacheUpdate
     /\ applied'.now >= applied.now]_vars

\* C27: the request sent upstream carries x-user-id or x-user-roles only if
\* the inbound request passed authenticateJWT, and then with the values of
\* the verified Principal: without a Principal it carries neither, whatever
\* identity headers the client set.
C27_IdentityOnlyFromGate ==
  response.upstream # "none" =>
    IF response.user = NoUser
    THEN /\ response.proxyReq.userId = NoHeader
         /\ response.proxyReq.userRoles = NoHeader
    ELSE /\ response.proxyReq.userId = <<response.user.id>>
         /\ response.proxyReq.userRoles = UserRolesHeader(response.user)

\* C28: the store never holds two ids registered by the process, and a
\* serviceId the process holds names the only id the store lists.
C28_OneLiveRegistration ==
  /\ Len(store) <= 1
  /\ (serviceId # NoId /\ store # <<>>) => store[1].id = serviceId

\* C29: at most one heartbeat timer is active.
C29_OneHeartbeatTimer == hbTimers <= 1

\* C30: once the process has exited after a signal it handled with the
\* registry reachable throughout, no id the process obtained from the
\* registry is still listed.
C30_ExitLeavesNothing ==
  (~Running /\ ~svcLog.outage) =>
    \A id \in svcLog.obtained : ~StoreHas(store, id)

====
